---- MODULE Spec2Model ----
(***************************************************************************)
(* Batch OCR orchestration of src/lib/gemini_ocr.js (pdfToText,            *)
(* runBatches, extractPagesFromMarkdown) and src/lib/gemini_batch.js       *)
(* (GeminiBatchProcessor.runInlineBatch / waitForCompletion).              *)
(*                                                                         *)
(* Texts are sequences of tokens.  A token stands for one lexical piece    *)
(* the regular expressions of the code can tell apart:                     *)
(*   begin n     "### -- Begin Page n"   (matched by /Begin Page (\d+)/)   *)
(*   beginundef  "### -- Begin Page undefined" (not matched: no digit)     *)
(*   end         "### -- End"                                              *)
(*   tail        " --"  (rest of a marker line)                            *)
(*   nl          one newline (whitespace removed by trim())                *)
(*   body p      the recognised body text of physical page p               *)
(*   error p     "[ERROR: OCR Failed for page p]"                          *)
(***************************************************************************)
EXTENDS Integers, Sequences, FiniteSets, TLC

\* ------------------------------------------------------------------ bounds
NumPages == 2        \* pages of the source document X (totalPages)
MaxBatchPages == 2   \* largest batchSize argument tried
MaxRuns == 2         \* consecutive runs of pdfToText on the same source
ScenarioPages == 10  \* pages of the source of the end-to-end scenarios
ScenarioBatch == 5   \* batchSize of the end-to-end scenarios
MaxProgress == 4     \* largest count and start time of the other progress values

\* ------------------------------------------------------- program constants
MAX_RETRIES == 3
MAX_BATCH_SIZE == 19 * 1024 * 1024
SIZE_CEILING == 19 * 1024 * 1024

\* ------------------------------------------------------------------ tokens
Tok(k, n) == [k |-> k, n |-> n]
BeginTok(n) == Tok("begin", n)
BeginUndef == Tok("beginundef", 0)
EndTok == Tok("end", 0)
TailTok == Tok("tail", 0)
NL == Tok("nl", 0)
BodyTok(p) == Tok("body", p)
ErrorTok(p) == Tok("error", p)

\* number of tokens of kind k in text (String.match(/.../g).length)
RECURSIVE CountKind(_, _)
CountKind(text, k) ==
    IF text = <<>> THEN 0
    ELSE (IF Head(text).k = k THEN 1 ELSE 0) + CountKind(Tail(text), k)

\* String.prototype.trim: strip leading and trailing whitespace
RECURSIVE TrimLeft(_)
TrimLeft(text) ==
    IF text # <<>> /\ Head(text) = NL THEN TrimLeft(Tail(text)) ELSE text

RECURSIVE TrimRight(_)
TrimRight(text) ==
    IF text # <<>> /\ text[Len(text)] = NL
    THEN TrimRight(SubSeq(text, 1, Len(text) - 1))
    ELSE text

Trim(text) == TrimRight(TrimLeft(text))

\* variant: the failure words are never looked for
IncludesError_Never(text) == \E i \in DOMAIN text : FALSE

\* content.includes("[ERROR: OCR Failed")
IncludesError(text) == \E i \in DOMAIN text : text[i].k = "error"

\* the regex scan of extractPagesFromMarkdown: indices of the begin markers
RECURSIVE ScanPositions(_, _)
ScanPositions(content, from) ==
    IF from > Len(content) THEN <<>>
    ELSE IF content[from].k = "begin"
         THEN <<from>> \o ScanPositions(content, from + 1)
         ELSE ScanPositions(content, from + 1)

\* Map.set
MapSet(m, key, val) ==
    [x \in (DOMAIN m) \cup {key} |-> IF x = key THEN val ELSE m[x]]

EmptyMap == [x \in {} |-> <<>>]

\* the second loop of extractPagesFromMarkdown, from position index i on
RECURSIVE ExtractFrom(_, _, _, _)
ExtractFrom(content, positions, i, pm) ==
    IF i > Len(positions) THEN pm
    ELSE LET start == positions[i]
             end == IF i + 1 <= Len(positions) THEN positions[i + 1] - 1
                    ELSE Len(content)
             pageContent == Trim(SubSeq(content, start, end))
         IN  ExtractFrom(content, positions, i + 1,
                 IF ~IncludesError(pageContent)
                 THEN MapSet(pm, content[start].n, pageContent)
                 ELSE pm)

extractPagesFromMarkdown(content) ==
    ExtractFrom(content, ScanPositions(content, 1), 1, EmptyMap)

\* ------------------------------------------------- the source document X
\* JSON.stringify(createOcrRequest(...)).length without the base64 payload:
\* the request envelope and the prompt text
REQ_ENVELOPE == 2000

\* the documents tried:
\*  small  every request is far below the ceiling
\*  half   a one-page request is exactly MAX_BATCH_SIZE / 2 long
\*  split  a one-page request is a little over MAX_BATCH_SIZE / 2 long
\*  big    the last page alone is over MAX_BATCH_SIZE
\*  edge   the request of the last page alone, serialized as a one-element
\*         array, is exactly 19 * 1024 * 1024 long
DocKinds == {"small", "half", "split", "big", "edge"}

\* length of the base64 encoding that page p adds to a request of document d
PageEnc(d, p) ==
    CASE d = "small" -> 1000
      [] d = "half" -> (MAX_BATCH_SIZE \div 2) - REQ_ENVELOPE
      [] d = "split" -> (MAX_BATCH_SIZE \div 2) - REQ_ENVELOPE + 1000
      [] d = "big" -> IF p = NumPages THEN MAX_BATCH_SIZE + 1 ELSE 1000
      [] d = "edge" -> IF p = NumPages
                       THEN SIZE_CEILING - 2 - REQ_ENVELOPE
                       ELSE 1000

RECURSIVE SumEnc(_, _)
SumEnc(d, pages) ==
    IF pages = <<>> THEN 0 ELSE PageEnc(d, Head(pages)) + SumEnc(d, Tail(pages))

\* createOcrRequest: one request holding the copied pages; size is
\* JSON.stringify(req).length
createOcrRequest(d, batch) ==
    [pages |-> batch, size |-> REQ_ENVELOPE + SumEnc(d, batch)]

\* JSON.stringify(requests).length for the requests with indices idxs:
\* brackets, the elements, and the commas between them
RECURSIVE SumSizes(_, _)
SumSizes(reqs, idxs) ==
    IF idxs = <<>> THEN 0 ELSE reqs[Head(idxs)].size + SumSizes(reqs, Tail(idxs))

JsonArraySize(reqs, idxs) ==
    2 + SumSizes(reqs, idxs) + (IF Len(idxs) > 0 THEN Len(idxs) - 1 ELSE 0)

\* variant: the resume scan's pages are not excluded
RECURSIVE PageIndicesFrom_All(_, _, _)
PageIndicesFrom_All(i, last, pm) ==
    IF i > last THEN <<>> ELSE <<i>> \o PageIndicesFrom_All(i + 1, last, pm)

\* ------------------------------------------------------ chunking (200-227)
\* pages of startPage..actualEndPage that pageMap does not have, ascending
RECURSIVE PageIndicesFrom(_, _, _)
PageIndicesFrom(i, last, pm) ==
    IF i > last THEN <<>>
    ELSE (IF i \notin DOMAIN pm THEN <<i>> ELSE <<>>)
         \o PageIndicesFrom(i + 1, last, pm)

\* variant: the slice ends one element later, slice(i, i + batchSize + 1)
Slice_OneMore(seq, i, n) ==
    SubSeq(seq, i + 1, IF i + n + 1 < Len(seq) THEN i + n + 1 ELSE Len(seq))

\* pageIndices.slice(i, i + batchSize), i 0-based
Slice(seq, i, n) ==
    SubSeq(seq, i + 1, IF i + n < Len(seq) THEN i + n ELSE Len(seq))

RECURSIVE ChunkFrom(_, _, _)
ChunkFrom(pageIndices, i, bsz) ==
    IF i >= Len(pageIndices) THEN <<>>
    ELSE <<Slice(pageIndices, i, bsz)>> \o ChunkFrom(pageIndices, i + bsz, bsz)

BatchMeta(batch) == [startPage |-> batch[1], numPages |-> Len(batch), pages |-> batch]

\* --------------------------------------------- what the service may answer
\* the well-formed text for relative page r showing physical page p
PageText(r, p) ==
    <<BeginTok(r), TailTok, NL, BodyTok(p), NL, EndTok, TailTok, NL>>

RECURSIVE OkText(_, _)
OkText(pages, r) ==
    IF r > Len(pages) THEN <<>>
    ELSE PageText(r, pages[r]) \o OkText(pages, r + 1)

TextKinds == {"ok", "noend", "dup", "oor", "sentinel"}
ResKinds == {"error", "empty"} \cup TextKinds

\* response text of a request for `pages`:
\*  ok        one begin/end pair per page, relative indices 1..k
\*  noend     the last end marker is missing
\*  dup       the last begin marker repeats relative index 1
\*  oor       the last begin marker carries index k+1
\*  sentinel  the first body is followed by the words "[ERROR: OCR Failed"
ResponseText(kind, pages) ==
    LET k == Len(pages)
        ok == OkText(pages, 1)
        lastBegin == 8 * (k - 1) + 1
    IN  CASE kind = "ok" -> ok
          [] kind = "noend" -> SubSeq(ok, 1, Len(ok) - 3)
          [] kind = "dup" -> [ok EXCEPT ![lastBegin] = BeginTok(1)]
          [] kind = "oor" -> [ok EXCEPT ![lastBegin] = BeginTok(k + 1)]
          [] kind = "sentinel" ->
                SubSeq(ok, 1, 4) \o <<ErrorTok(pages[1])>> \o SubSeq(ok, 5, Len(ok))

\* one element of inlinedResponses
Outcome(kind, pages) ==
    [error |-> (kind = "error"),
     parts |-> (kind \in TextKinds),
     text |-> IF kind \in TextKinds THEN ResponseText(kind, pages) ELSE <<>>]

\* variant: the page list is indexed with the relative page itself,
\* meta.pages[relativePage]
RewriteMarkers_IndexOffByOne(text, meta) ==
    [i \in DOMAIN text |->
        IF text[i].k = "begin"
        THEN IF text[i].n + 1 \in 1..Len(meta.pages)
             THEN BeginTok(meta.pages[text[i].n + 1])
             ELSE Tok("beginundef", 0)
        ELSE text[i]]

\* --------------------------------------------------- validation (265-292)
\* text.replace(/### -- Begin Page (\d+)/g, ...): every begin marker, in one
\* pass, gets meta.pages[relativePage - 1]; outside the list that is undefined
RewriteMarkers(text, meta) ==
    [i \in DOMAIN text |->
        IF text[i].k = "begin"
        THEN IF text[i].n \in 1..Len(meta.pages)
             THEN BeginTok(meta.pages[text[i].n])
             ELSE BeginUndef
        ELSE text[i]]

\* variant: only the begin markers are counted
MarkersMatch_BeginOnly(text, meta) == CountKind(text, "begin") = meta.numPages

\* beginCount === meta.numPages && endCount === meta.numPages
MarkersMatch(text, meta) ==
    /\ CountKind(text, "begin") = meta.numPages
    /\ CountKind(text, "end") = meta.numPages

\* variant: pageMap is replaced by the pages of the accepted unit
MergePages_Replace(pm, batchPages) == batchPages

\* for (const [pNum, pContent] of batchPages) pageMap.set(pNum, pContent)
MergePages(pm, batchPages) ==
    [x \in (DOMAIN pm) \cup (DOMAIN batchPages) |->
        IF x \in DOMAIN batchPages THEN batchPages[x] ELSE pm[x]]

\* variant: an unresolved page is left out of the merged text
RECURSIVE AssembleFrom_SkipUnresolved(_, _, _)
AssembleFrom_SkipUnresolved(i, last, pm) ==
    IF i > last THEN <<>>
    ELSE (IF i \in DOMAIN pm THEN pm[i] \o <<Tok("nl", 0), Tok("nl", 0)>> ELSE <<>>)
         \o AssembleFrom_SkipUnresolved(i + 1, last, pm)

\* variant: hasError looks at every page of the document, not at the range
HasErrorIn_WholeDocument(first, last, pm) == \E i \in 1..NumPages : i \notin DOMAIN pm

\* ---------------------------------------------------- final merge (303-312)
SentinelSegment(i) == <<BeginTok(i), TailTok, NL, NL, ErrorTok(i), NL, NL>>

RECURSIVE AssembleFrom(_, _, _)
AssembleFrom(i, last, pm) ==
    IF i > last THEN <<>>
    ELSE (IF i \in DOMAIN pm THEN pm[i] \o <<NL, NL>> ELSE SentinelSegment(i))
         \o AssembleFrom(i + 1, last, pm)

HasErrorIn(first, last, pm) == \E i \in first..last : i \notin DOMAIN pm

\* ------------------------------------------------------------------- state
VARIABLES
    doc,              \* which source document X is (sizes of its pages)
    svc,              \* what the service does with the number of outcomes
    hist,             \* history of the current call: the artifacts when it
                      \* started, the rounds each unit was sent in, the round
                      \* each unit was accepted in and the text it was
                      \* accepted with, the artifact writes made
    disk,             \* the two artifacts X_paged.md (normal), X_ERROR_paged.md (error)
    runs,             \* calls of pdfToText made so far
    pc,               \* position of the current call
    startPage, actualEndPage, batchSize,   \* arguments of the call
    pageMap,          \* PageResult
    requests, batchMetadata,
    pendingIndices, retryCount,
    progressState,
    rbI, currentBatch, currentBatchSize, allResults,   \* locals of runBatches
    jobs,             \* the jobs the current round has created: requests, state
    vI, nextPendingIndices, originalIndex, result, success,  \* locals of the validation loop
    allMarkdown, hasError,
    thrown,           \* the error the call was rejected with, "" when none
    returned          \* the path the call returned, "" when none

vars == <<doc, svc, hist, disk, runs, pc, startPage, actualEndPage, batchSize, pageMap,
          requests, batchMetadata, pendingIndices, retryCount, progressState,
          rbI, currentBatch, currentBatchSize, allResults, jobs,
          vI, nextPendingIndices, originalIndex, result, success,
          allMarkdown, hasError, thrown, returned>>

NoFile == [exists |-> FALSE, content |-> <<>>]
File(content) == [exists |-> TRUE, content |-> content]

\* an X_paged.md left by an earlier, fully successful run over the whole document
StaleNormal == AssembleFrom(1, NumPages, [p \in 1..NumPages |-> Trim(PageText(p, p))])

NoResult == [error |-> FALSE, parts |-> FALSE, text |-> <<>>]

\* variant: JOB_STATE_EXPIRED is missing from the set
TerminalStates_NoExpired == {"JOB_STATE_SUCCEEDED", "JOB_STATE_FAILED",
                             "JOB_STATE_CANCELLED"}

\* the set `completed` of waitForCompletion (46-51)
TerminalStates == {"JOB_STATE_SUCCEEDED", "JOB_STATE_FAILED",
                   "JOB_STATE_CANCELLED", "JOB_STATE_EXPIRED"}
\* what ai.batches.get may report
JobStates == {"JOB_STATE_SUCCEEDED", "JOB_STATE_FAILED", "JOB_STATE_CANCELLED",
              "JOB_STATE_EXPIRED", "JOB_STATE_RUNNING"}

\* history of a call that has not chunked yet
NoHist(d) ==
    [disk0 |-> d, sent |-> <<>>, accepted |-> <<>>, text |-> <<>>, persists |-> 0]

\* the locals of one call, as they are when the call starts
FreshLocals ==
    /\ pageMap' = EmptyMap
    /\ requests' = <<>>
    /\ batchMetadata' = <<>>
    /\ pendingIndices' = <<>>
    /\ retryCount' = 0
    /\ progressState' = [completed |-> 0, total |-> 0, startTime |-> 0]
    /\ rbI' = 0
    /\ currentBatch' = <<>>
    /\ currentBatchSize' = 0
    /\ allResults' = <<>>
    /\ jobs' = <<>>
    /\ vI' = 0
    /\ nextPendingIndices' = <<>>
    /\ originalIndex' = 0
    /\ result' = NoResult
    /\ success' = FALSE
    /\ allMarkdown' = <<>>
    /\ hasError' = FALSE
    /\ thrown' = ""
    /\ returned' = ""

InitAny ==
    /\ doc \in DocKinds
    /\ disk \in {[normal |-> NoFile, error |-> NoFile],
                 [normal |-> File(StaleNormal), error |-> NoFile]}
    /\ hist = NoHist(disk)
    /\ runs = 0
    /\ pc = "idle"
    /\ startPage = 1
    /\ actualEndPage = NumPages
    /\ batchSize = 1
    /\ pageMap = EmptyMap
    /\ requests = <<>>
    /\ batchMetadata = <<>>
    /\ pendingIndices = <<>>
    /\ retryCount = 0
    /\ progressState = [completed |-> 0, total |-> 0, startTime |-> 0]
    /\ rbI = 0
    /\ currentBatch = <<>>
    /\ currentBatchSize = 0
    /\ allResults = <<>>
    /\ jobs = <<>>
    /\ vI = 0
    /\ nextPendingIndices = <<>>
    /\ originalIndex = 0
    /\ result = NoResult
    /\ success = FALSE
    /\ allMarkdown = <<>>
    /\ hasError = FALSE
    /\ thrown = ""
    /\ returned = ""

\* the service keeps to its contract: a SUCCEEDED job carries one outcome per
\* submitted request, in request order (or no inlinedResponses at all)
Init == InitAny /\ svc = "aligned"

\* the service may also answer with one outcome too few or one too many
InitMiscount == InitAny /\ svc = "miscount"

\* an exception leaves pdfToText: nothing catches it on the way to the caller
Throw(e) ==
    /\ pc' = "thrown"
    /\ thrown' = e

\* pdfToText is called (180-189): the caller passes the range and batchSize
StartRun(s, e, b) ==
    /\ pc \in {"idle", "done", "thrown"}
    /\ runs < MaxRuns
    /\ runs' = runs + 1
    /\ startPage' = s
    /\ actualEndPage' = e
    /\ batchSize' = b
    /\ pc' = "scan"
    /\ FreshLocals
    /\ hist' = NoHist(disk)
    /\ UNCHANGED <<doc, svc, disk>>

\* resume scan (191-198)
ScanResume ==
    /\ pc = "scan"
    /\ pageMap' = IF disk.error.exists
                  THEN extractPagesFromMarkdown(disk.error.content)
                  ELSE EmptyMap
    /\ pc' = "chunk"
    /\ UNCHANGED <<doc, svc, hist, disk, runs, startPage, actualEndPage, batchSize,
                   requests, batchMetadata, pendingIndices, retryCount,
                   progressState, rbI, currentBatch, currentBatchSize,
                   allResults, jobs, vI, nextPendingIndices,
                   originalIndex, result, success, allMarkdown, hasError,
                   thrown, returned>>

\* work selection and chunking (200-239); the clock is read from the moment
\* progressState is built: startTime, Date.now() of line 238, is its origin
Chunk ==
    /\ pc = "chunk"
    /\ LET pageIndices == PageIndicesFrom(startPage, actualEndPage, pageMap)
           batches == ChunkFrom(pageIndices, 0, batchSize)
       IN  /\ requests' = [i \in DOMAIN batches |-> createOcrRequest(doc, batches[i])]
           /\ batchMetadata' = [i \in DOMAIN batches |-> BatchMeta(batches[i])]
           /\ pendingIndices' = [i \in DOMAIN batches |-> i]
           /\ progressState' = [completed |-> 0, total |-> Len(batches), startTime |-> 0]
           /\ hist' = [hist EXCEPT !.sent = [i \in DOMAIN batches |-> {}],
                                   !.accepted = [i \in DOMAIN batches |-> -1],
                                   !.text = [i \in DOMAIN batches |-> <<>>]]
    /\ retryCount' = 0
    /\ pc' = "loop"
    /\ UNCHANGED <<doc, svc, disk, runs, startPage, actualEndPage, batchSize,
                   pageMap, rbI, currentBatch, currentBatchSize, allResults,
                   jobs, vI, nextPendingIndices, originalIndex, result,
                   success, allMarkdown, hasError, thrown, returned>>

\* variant: the break tests retryCount > MAX_RETRIES
LoopExit_OffByOne(pending, rc) == pending = <<>> \/ rc > MAX_RETRIES

\* variant: the loop is also left when the progress counter has reached the
\* total
LoopExit_ProgressDone(pending, rc) ==
    pending = <<>> \/ rc >= MAX_RETRIES
        \/ progressState.completed >= progressState.total

\* the retry loop ends: while (pendingIndices.length > 0) and the break at
\* retryCount >= MAX_RETRIES (241-245)
LoopExit(pending, rc) == pending = <<>> \/ rc >= MAX_RETRIES

\* variant: when the loop is left the merge is skipped
LoopHead_SkipMerge ==
    /\ pc = "loop"
    /\ IF LoopExit(pendingIndices, retryCount)
       THEN /\ pc' = "persist"
            /\ UNCHANGED <<rbI, currentBatch, currentBatchSize, allResults, jobs>>
       ELSE /\ pc' = "rb"
            /\ rbI' = 1
            /\ currentBatch' = <<>>
            /\ currentBatchSize' = 0
            /\ allResults' = <<>>
            /\ jobs' = <<>>
    /\ UNCHANGED <<doc, svc, hist, disk, runs, startPage, actualEndPage, batchSize,
                   pageMap, requests, batchMetadata, pendingIndices,
                   retryCount, progressState, vI,
                   nextPendingIndices, originalIndex, result, success,
                   allMarkdown, hasError, thrown, returned>>

\* head of the retry loop (241-253): leave it, or call runBatches (111-116)
LoopHead ==
    /\ pc = "loop"
    /\ IF LoopExit(pendingIndices, retryCount)
       THEN /\ pc' = "merge"
            /\ UNCHANGED <<rbI, currentBatch, currentBatchSize, allResults, jobs>>
       ELSE /\ pc' = "rb"
            /\ rbI' = 1
            /\ currentBatch' = <<>>
            /\ currentBatchSize' = 0
            /\ allResults' = <<>>
            /\ jobs' = <<>>
    /\ UNCHANGED <<doc, svc, hist, disk, runs, startPage, actualEndPage, batchSize,
                   pageMap, requests, batchMetadata, pendingIndices,
                   retryCount, progressState, vI,
                   nextPendingIndices, originalIndex, result, success,
                   allMarkdown, hasError, thrown, returned>>

\* one step of the for loop of runBatches (142-156).  pendingIndices[rbI] is
\* the request currentRequests[rbI]; index 0 stands for undefined, whose
\* JSON.stringify(...).length raises a TypeError.
RunBatchesStep ==
    /\ pc = "rb"
    /\ IF rbI <= Len(pendingIndices)
       THEN IF pendingIndices[rbI] = 0
            THEN /\ Throw("TypeError")
                 /\ UNCHANGED <<rbI, currentBatch, currentBatchSize, vI,
                                nextPendingIndices>>
            ELSE LET reqSize == requests[pendingIndices[rbI]].size
                 IN  IF currentBatchSize + reqSize > MAX_BATCH_SIZE
                        /\ currentBatch # <<>>
                     THEN \* processBatch() with a non-empty batch
                          /\ pc' = "submit"
                          /\ UNCHANGED <<rbI, currentBatch, currentBatchSize,
                                         vI, nextPendingIndices, thrown>>
                     ELSE /\ currentBatch' = Append(currentBatch, pendingIndices[rbI])
                          /\ currentBatchSize' = currentBatchSize + reqSize
                          /\ rbI' = rbI + 1
                          /\ UNCHANGED <<pc, vI, nextPendingIndices, thrown>>
       ELSE IF currentBatch # <<>>
            THEN \* the final processBatch()
                 /\ pc' = "submit"
                 /\ UNCHANGED <<rbI, currentBatch, currentBatchSize, vI,
                                nextPendingIndices, thrown>>
            ELSE \* return allResults; the validation loop starts (255-257)
                 /\ pc' = "validate"
                 /\ vI' = 1
                 /\ nextPendingIndices' = <<>>
                 /\ UNCHANGED <<rbI, currentBatch, currentBatchSize, thrown>>
    /\ UNCHANGED <<doc, svc, hist, disk, runs, startPage, actualEndPage, batchSize,
                   pageMap, requests, batchMetadata, pendingIndices,
                   retryCount, progressState, allResults, jobs,
                   originalIndex, result, success, allMarkdown, hasError,
                   returned>>

\* variant: the payload is handed to the service whatever its size
Submit_NoSizeCheck ==
    /\ pc = "submit"
    /\ pc' = "create"
    /\ UNCHANGED <<doc, svc, hist, disk, runs, startPage, actualEndPage, batchSize,
                   pageMap, requests, batchMetadata, pendingIndices,
                   retryCount, progressState, rbI, currentBatch,
                   currentBatchSize, allResults, jobs, vI,
                   nextPendingIndices, originalIndex, result, success,
                   allMarkdown, hasError, thrown, returned>>

\* runInlineBatch, the size check before any network call (19-25)
Submit ==
    /\ pc = "submit"
    /\ IF JsonArraySize(requests, currentBatch) > SIZE_CEILING
       THEN Throw("size")
       ELSE /\ pc' = "create"
            /\ UNCHANGED thrown
    /\ UNCHANGED <<doc, svc, hist, disk, runs, startPage, actualEndPage, batchSize,
                   pageMap, requests, batchMetadata, pendingIndices,
                   retryCount, progressState, rbI, currentBatch,
                   currentBatchSize, allResults, jobs, vI,
                   nextPendingIndices, originalIndex, result, success,
                   allMarkdown, hasError, returned>>

\* variant: the job is created and not awaited; runBatches goes on
Create_NoAwait ==
    /\ pc = "create"
    /\ \/ /\ jobs' = Append(jobs, [units |-> currentBatch,
                                    round |-> retryCount,
                                    state |-> "JOB_STATE_PENDING"])
          /\ hist' = [hist EXCEPT !.sent =
                         [u \in DOMAIN @ |->
                            IF u \in {currentBatch[i] : i \in DOMAIN currentBatch}
                            THEN @[u] \cup {retryCount} ELSE @[u]]]
          /\ pc' = "rb"
          /\ currentBatch' = <<>>
          /\ currentBatchSize' = 0
          /\ UNCHANGED thrown
       \/ /\ Throw("create")
          /\ UNCHANGED <<jobs, hist, currentBatch, currentBatchSize>>
    /\ UNCHANGED <<doc, svc, disk, runs, startPage, actualEndPage, batchSize,
                   pageMap, requests, batchMetadata, pendingIndices,
                   retryCount, progressState, rbI,
                   allResults, vI,
                   nextPendingIndices, originalIndex, result, success,
                   allMarkdown, hasError, returned>>

\* ai.batches.create (29-42): the service takes the job or refuses it
Create ==
    /\ pc = "create"
    /\ \/ /\ jobs' = Append(jobs, [units |-> currentBatch,
                                    round |-> retryCount,
                                    state |-> "JOB_STATE_PENDING"])
          /\ hist' = [hist EXCEPT !.sent =
                         [u \in DOMAIN @ |->
                            IF u \in {currentBatch[i] : i \in DOMAIN currentBatch}
                            THEN @[u] \cup {retryCount} ELSE @[u]]]
          /\ pc' = "poll"
          /\ UNCHANGED thrown
       \/ /\ Throw("create")
          /\ UNCHANGED <<jobs, hist>>
    /\ UNCHANGED <<doc, svc, disk, runs, startPage, actualEndPage, batchSize,
                   pageMap, requests, batchMetadata, pendingIndices,
                   retryCount, progressState, rbI, currentBatch,
                   currentBatchSize, allResults, vI,
                   nextPendingIndices, originalIndex, result, success,
                   allMarkdown, hasError, returned>>

\* ai.batches.get in waitForCompletion (53, 55, 71-72): the service reports the
\* job's state; a non-terminal state means sleeping 30 s and asking again
Poll ==
    /\ pc = "poll"
    /\ \E s \in JobStates :
          /\ jobs' = [jobs EXCEPT ![Len(jobs)].state = s]
          /\ pc' = IF s \in TerminalStates THEN "finish" ELSE "poll"
    /\ UNCHANGED <<doc, svc, hist, disk, runs, startPage, actualEndPage, batchSize,
                   pageMap, requests, batchMetadata, pendingIndices,
                   retryCount, progressState, rbI, currentBatch,
                   currentBatchSize, allResults, vI,
                   nextPendingIndices, originalIndex, result, success,
                   allMarkdown, hasError, thrown, returned>>

\* which requests the elements of inlinedResponses answer
ResponseShapes ==
    IF svc = "aligned" THEN {"exact", "missing"}
    ELSE {"exact", "short", "extra", "missing"}

Responders(shape, units) ==
    CASE shape = "exact" -> units
      [] shape = "short" -> SubSeq(units, 1, Len(units) - 1)
      [] shape = "extra" -> Append(units, units[Len(units)])
      [] shape = "missing" -> <<>>

\* variant: the results of a job are put ahead of the results so far,
\* allResults.unshift(...results)
WaitReturn_Prepend ==
    /\ pc = "finish"
    /\ IF jobs[Len(jobs)].state = "JOB_STATE_SUCCEEDED"
       THEN \E shape \in ResponseShapes :
               IF shape = "missing"
               THEN /\ Throw("no_responses")
                    /\ UNCHANGED <<allResults, progressState, currentBatch,
                                   currentBatchSize>>
               ELSE /\ allResults' = Responders(shape, currentBatch) \o allResults
                    /\ progressState' =
                         [progressState EXCEPT !.completed = @ + Len(currentBatch)]
                    /\ currentBatch' = <<>>
                    /\ currentBatchSize' = 0
                    /\ pc' = "rb"
                    /\ UNCHANGED thrown
       ELSE /\ Throw("job_failed")
            /\ UNCHANGED <<allResults, progressState, currentBatch,
                           currentBatchSize>>
    /\ UNCHANGED <<doc, svc, hist, disk, runs, startPage, actualEndPage, batchSize,
                   pageMap, requests, batchMetadata, pendingIndices,
                   retryCount, rbI, jobs, vI, nextPendingIndices,
                   originalIndex, result, success, allMarkdown, hasError,
                   returned>>

\* the end of waitForCompletion (75-85) and, when it returns, the rest of
\* processBatch (126-139)
WaitReturn ==
    /\ pc = "finish"
    /\ IF jobs[Len(jobs)].state = "JOB_STATE_SUCCEEDED"
       THEN \E shape \in ResponseShapes :
               IF shape = "missing"
               THEN /\ Throw("no_responses")
                    /\ UNCHANGED <<allResults, progressState, currentBatch,
                                   currentBatchSize>>
               ELSE /\ allResults' = allResults \o Responders(shape, currentBatch)
                    /\ progressState' =
                         [progressState EXCEPT !.completed = @ + Len(currentBatch)]
                    /\ currentBatch' = <<>>
                    /\ currentBatchSize' = 0
                    /\ pc' = "rb"
                    /\ UNCHANGED thrown
       ELSE /\ Throw("job_failed")
            /\ UNCHANGED <<allResults, progressState, currentBatch,
                           currentBatchSize>>
    /\ UNCHANGED <<doc, svc, hist, disk, runs, startPage, actualEndPage, batchSize,
                   pageMap, requests, batchMetadata, pendingIndices,
                   retryCount, rbI, jobs, vI, nextPendingIndices,
                   originalIndex, result, success, allMarkdown, hasError,
                   returned>>

\* pendingIndices[i], undefined (0) past the end of the list
PendingAt(i) == IF i <= Len(pendingIndices) THEN pendingIndices[i] ELSE 0

\* merge of an accepted unit (281-292)
AcceptInto(pm, text, meta) ==
    MergePages(pm, extractPagesFromMarkdown(RewriteMarkers(text, meta)))

\* one iteration of the validation loop (257-296); the service's answer
\* batchResults[vI] is the answer to the request allResults[vI] names
ValidateStep ==
    /\ pc = "validate"
    /\ vI <= Len(allResults)
    /\ \E kind \in ResKinds :
         LET res == Outcome(kind, batchMetadata[allResults[vI]].pages)
             oi == PendingAt(vI)
         IN  /\ result' = res
             /\ originalIndex' = oi
             /\ IF ~res.error /\ res.parts
                THEN IF oi = 0
                     THEN \* meta is undefined: meta.numPages raises
                          /\ Throw("TypeError")
                          /\ UNCHANGED <<success, pageMap, nextPendingIndices,
                                         vI, hist>>
                     ELSE LET meta == batchMetadata[oi]
                              ok == MarkersMatch(res.text, meta)
                          IN  /\ success' = ok
                              /\ pageMap' = IF ok THEN AcceptInto(pageMap, res.text, meta)
                                            ELSE pageMap
                              /\ nextPendingIndices' =
                                    IF ok THEN nextPendingIndices
                                    ELSE Append(nextPendingIndices, oi)
                              /\ hist' = IF ok
                                          THEN [hist EXCEPT !.accepted[oi] = retryCount,
                                                            !.text[oi] = res.text]
                                          ELSE hist
                              /\ vI' = vI + 1
                              /\ UNCHANGED <<pc, thrown>>
                ELSE /\ success' = FALSE
                     /\ nextPendingIndices' = Append(nextPendingIndices, oi)
                     /\ vI' = vI + 1
                     /\ UNCHANGED <<pc, thrown, pageMap, hist>>
    /\ UNCHANGED <<doc, svc, disk, runs, startPage, actualEndPage, batchSize,
                   requests, batchMetadata, pendingIndices, retryCount,
                   progressState, rbI, currentBatch, currentBatchSize,
                   allResults, jobs, allMarkdown, hasError, returned>>

\* variant: the end of a round saves what is resolved so far to X_ERROR_paged
ValidateEnd_Checkpoint ==
    /\ pc = "validate"
    /\ vI > Len(allResults)
    /\ pendingIndices' = nextPendingIndices
    /\ retryCount' = retryCount + 1
    /\ pc' = "loop"
    /\ allResults' = <<>>
    /\ vI' = 0
    /\ nextPendingIndices' = <<>>
    /\ originalIndex' = 0
    /\ result' = NoResult
    /\ success' = FALSE
    /\ disk' = [disk EXCEPT !.error =
                   [exists |-> TRUE,
                    content |-> AssembleFrom(startPage, actualEndPage, pageMap)]]
    /\ UNCHANGED <<doc, svc, hist, runs, startPage, actualEndPage, batchSize,
                   pageMap, requests, batchMetadata, progressState, rbI,
                   currentBatch, currentBatchSize, jobs,
                   allMarkdown, hasError, thrown, returned>>

\* variant: every unit of the round stays pending
ValidateEnd_KeepAll ==
    /\ pc = "validate"
    /\ vI > Len(allResults)
    /\ pendingIndices' = pendingIndices
    /\ retryCount' = retryCount + 1
    /\ pc' = "loop"
    /\ allResults' = <<>>
    /\ vI' = 0
    /\ nextPendingIndices' = <<>>
    /\ originalIndex' = 0
    /\ result' = NoResult
    /\ success' = FALSE
    /\ UNCHANGED <<doc, svc, hist, disk, runs, startPage, actualEndPage, batchSize,
                   pageMap, requests, batchMetadata, progressState, rbI,
                   currentBatch, currentBatchSize, jobs,
                   allMarkdown, hasError, thrown, returned>>

\* the end of a round (298-299); the locals of the loop body go out of scope
ValidateEnd ==
    /\ pc = "validate"
    /\ vI > Len(allResults)
    /\ pendingIndices' = nextPendingIndices
    /\ retryCount' = retryCount + 1
    /\ pc' = "loop"
    /\ allResults' = <<>>
    /\ vI' = 0
    /\ nextPendingIndices' = <<>>
    /\ originalIndex' = 0
    /\ result' = NoResult
    /\ success' = FALSE
    /\ UNCHANGED <<doc, svc, hist, disk, runs, startPage, actualEndPage, batchSize,
                   pageMap, requests, batchMetadata, progressState, rbI,
                   currentBatch, currentBatchSize, jobs,
                   allMarkdown, hasError, thrown, returned>>

\* final merge (303-312)
Merge ==
    /\ pc = "merge"
    /\ allMarkdown' = AssembleFrom(startPage, actualEndPage, pageMap)
    /\ hasError' = HasErrorIn(startPage, actualEndPage, pageMap)
    /\ pc' = "persist"
    /\ UNCHANGED <<doc, svc, hist, disk, runs, startPage, actualEndPage, batchSize,
                   pageMap, requests, batchMetadata, pendingIndices,
                   retryCount, progressState, rbI, currentBatch,
                   currentBatchSize, allResults, jobs, vI,
                   nextPendingIndices, originalIndex, result, success,
                   thrown, returned>>

\* fs.writeFileSync(errorPath | normalPath, allMarkdown) (315, 320)
WriteArtifact(d, err, content) ==
    IF err THEN [d EXCEPT !.error = File(content)]
    ELSE [d EXCEPT !.normal = File(content)]

\* variant: the other artifact is left in place
UnlinkOther_Never(d, err) == d

\* if (fs.existsSync(other)) fs.unlinkSync(other) (317, 322)
UnlinkOther(d, err) ==
    IF err THEN [d EXCEPT !.normal = NoFile]
    ELSE [d EXCEPT !.error = NoFile]

\* the write of the outcome decision (314-316, 319-321)
PersistWrite ==
    /\ pc = "persist"
    /\ disk' = WriteArtifact(disk, hasError, allMarkdown)
    /\ hist' = [hist EXCEPT !.persists = @ + 1]
    /\ pc' = "unlink"
    /\ UNCHANGED <<doc, svc, runs, startPage, actualEndPage, batchSize, pageMap,
                   requests, batchMetadata, pendingIndices, retryCount,
                   progressState, rbI, currentBatch, currentBatchSize,
                   allResults, jobs, vI, nextPendingIndices,
                   originalIndex, result, success, allMarkdown, hasError,
                   thrown, returned>>

\* removal of the other artifact and return of the path (317-318, 322-323)
PersistUnlink ==
    /\ pc = "unlink"
    /\ disk' = UnlinkOther(disk, hasError)
    /\ returned' = IF hasError THEN "errorPath" ELSE "normalPath"
    /\ pc' = "done"
    /\ UNCHANGED <<doc, svc, hist, runs, startPage, actualEndPage, batchSize, pageMap,
                   requests, batchMetadata, pendingIndices, retryCount,
                   progressState, rbI, currentBatch, currentBatchSize,
                   allResults, jobs, vI, nextPendingIndices,
                   originalIndex, result, success, allMarkdown, hasError,
                   thrown>>

Next ==
    \/ \E s \in 1..NumPages, e \in 1..NumPages, b \in 1..MaxBatchPages :
          s <= e /\ StartRun(s, e, b)
    \/ ScanResume
    \/ Chunk
    \/ LoopHead
    \/ RunBatchesStep
    \/ Submit
    \/ Create
    \/ Poll
    \/ WaitReturn
    \/ ValidateStep
    \/ ValidateEnd
    \/ Merge
    \/ PersistWrite
    \/ PersistUnlink

Spec == Init /\ [][Next]_vars

SpecMiscount == InitMiscount /\ [][Next]_vars

\* the end-to-end scenarios: pdfToText(X, ScenarioBatch) on a source of
\* ScenarioPages small pages, no artifact on disk before the first call
InitScenario ==
    /\ InitAny
    /\ doc = "small"
    /\ svc = "aligned"
    /\ disk = [normal |-> NoFile, error |-> NoFile]

StartScenario == StartRun(1, ScenarioPages, ScenarioBatch)

NextScenario ==
    \/ StartScenario
    \/ ScanResume
    \/ Chunk
    \/ LoopHead
    \/ RunBatchesStep
    \/ Submit
    \/ Create
    \/ Poll
    \/ WaitReturn
    \/ ValidateStep
    \/ ValidateEnd
    \/ Merge
    \/ PersistWrite
    \/ PersistUnlink

SpecScenario == InitScenario /\ [][NextScenario]_vars

\* runs that differ in their progress values only.  progressState is an
\* object that pdfToText builds (235-239) and hands to runBatches (253) and on
\* to runInlineBatch and waitForCompletion (125; part_000 42); its startTime is
\* whatever the clock showed.  ProgressDiffers puts the run on with other
\* progress values than the ones it holds, everything else being the same.
ProgressValues ==
    [completed : {0, MaxProgress}, total : {0, MaxProgress}, startTime : {0, MaxProgress}]

ProgressDiffers ==
    /\ pc \in {"loop", "rb", "submit", "create", "poll", "finish", "validate"}
    /\ \E q \in ProgressValues :
          /\ q # progressState
          /\ progressState' = q
    /\ UNCHANGED <<doc, svc, hist, disk, runs, pc, startPage, actualEndPage,
                   batchSize, pageMap, requests, batchMetadata, pendingIndices,
                   retryCount, rbI, currentBatch, currentBatchSize,
                   allResults, jobs, vI, nextPendingIndices, originalIndex,
                   result, success, allMarkdown, hasError, thrown, returned>>

\* an X_ERROR_paged.md left by an earlier run over the whole document that
\* resolved page 1 only
PartialError == AssembleFrom(1, NumPages, [p \in {1} |-> Trim(PageText(p, p))])

\* one call of pdfToText on a source of small pages, with no artifact or
\* with a partial artifact on disk
InitProgress ==
    /\ InitAny
    /\ doc = "small"
    /\ svc = "aligned"
    /\ disk \in {[normal |-> NoFile, error |-> NoFile],
                 [normal |-> NoFile, error |-> File(PartialError)]}

NextProgress ==
    \/ \E s \in 1..NumPages, e \in 1..NumPages, b \in 1..MaxBatchPages :
          s <= e /\ runs = 0 /\ StartRun(s, e, b)
    \/ ScanResume
    \/ Chunk
    \/ LoopHead
    \/ RunBatchesStep
    \/ Submit
    \/ Create
    \/ Poll
    \/ WaitReturn
    \/ ValidateStep
    \/ ValidateEnd
    \/ Merge
    \/ PersistWrite
    \/ PersistUnlink
    \/ ProgressDiffers

SpecProgress == InitProgress /\ [][NextProgress]_vars

\* =============================================================== properties
Range(seq) == {seq[i] : i \in DOMAIN seq}
RequestedPages == startPage..actualEndPage
FailedStates == TerminalStates \ {"JOB_STATE_SUCCEEDED"}
RunEnded == pc \in {"done", "thrown"}
ExactlyOneArtifact == disk.normal.exists # disk.error.exists
AllUnits == [i \in DOMAIN requests |-> i]
\* the physical pages of unit u
UnitPages(u) == Range(batchMetadata[u].pages)
\* the units the jobs of the current round were sent
UnitsSent == UNION {Range(jobs[j].units) : j \in DOMAIN jobs}
\* begin/end markers of a text, counted as a set of positions
NumKind(text, k) == Cardinality({i \in DOMAIN text : text[i].k = k})

\* C1: every run ends having persisted a complete or a partial artifact,
\* also when a job of the run ended FAILED, CANCELLED or EXPIRED: a run in
\* which a job reached such a state still ends with pc = "done" and with the
\* artifact it returned on disk.
C1_EveryRunPersists ==
    (RunEnded /\ \E j \in DOMAIN jobs : jobs[j].state \in FailedStates)
        => /\ pc = "done"
           /\ returned \in {"normalPath", "errorPath"}
           /\ ExactlyOneArtifact

\* C2: when a job ends FAILED, CANCELLED or EXPIRED, the run goes on with the
\* retry loop and every unit of that job is pending in the next round.
C2_FailedJobUnitsRetried ==
    [][(pc = "finish" /\ jobs[Len(jobs)].state \in FailedStates)
          => /\ pc' \notin {"thrown", "done"}
             /\ Range(jobs[Len(jobs)].units)
                  \subseteq (Range(nextPendingIndices') \cup Range(pendingIndices'))]_vars

\* C3: a round is under way only while units are pending and
\* retryCount < MAX_RETRIES, and it sends every pending unit; a run whose
\* units all failed in every round (all units still pending when the loop is
\* left) made exactly MAX_RETRIES rounds, numbered 0..MAX_RETRIES-1, the last
\* one sending every unit, and renders every page of every unit as a failure
\* sentinel in the artifact it writes.
InRound == pc \in {"rb", "submit", "create", "poll", "finish", "validate"}
AfterLoop == pc \in {"merge", "persist", "unlink", "done"}
Merged == pc \in {"persist", "unlink", "done"}

C3_RetryBound ==
    /\ InRound => (pendingIndices # <<>> /\ retryCount < MAX_RETRIES)
    /\ (pc = "validate" /\ 0 \notin Range(pendingIndices))
          => /\ UnitsSent = Range(pendingIndices)
             /\ \A j \in DOMAIN jobs : jobs[j].round = retryCount
    /\ (AfterLoop /\ requests # <<>> /\ pendingIndices = AllUnits)
          => /\ retryCount = MAX_RETRIES
             /\ \A j \in DOMAIN jobs : jobs[j].round = MAX_RETRIES - 1
             /\ UnitsSent = Range(AllUnits)
             /\ Merged =>
                  /\ hasError
                  /\ \A u \in DOMAIN requests : \A p \in UnitPages(u) :
                        /\ p \notin DOMAIN pageMap
                        /\ \E i \in DOMAIN allMarkdown :
                              /\ allMarkdown[i] = BeginTok(p)
                              /\ SubSeq(allMarkdown, i, i + 6) = SentinelSegment(p)
             /\ pc = "done" => (returned = "errorPath" /\ disk.error = File(allMarkdown))

C3_Witness ==
    /\ pc = "done"
    /\ Len(requests) >= 2
    /\ pendingIndices = AllUnits
    /\ retryCount = MAX_RETRIES
    /\ returned = "errorPath"

\* C4 as stated: after any run, exactly one of X_paged and X_ERROR_paged
\* exists.
C4_ExactlyOneAfterAnyRun == RunEnded => ExactlyOneArtifact

\* C4 amended: after any run that returns a path (one that did not stop with
\* an error), exactly one of the two artifacts exists: X_paged alone when no
\* page of the range is unresolved, X_ERROR_paged alone otherwise.
C4_ExactlyOneAfterReturn ==
    pc = "done" =>
        IF \E p \in RequestedPages : p \notin DOMAIN pageMap
        THEN /\ returned = "errorPath"
             /\ disk.error.exists /\ ~disk.normal.exists
        ELSE /\ returned = "normalPath"
             /\ disk.normal.exists /\ ~disk.error.exists

\* a second run that resumed from X_ERROR_paged and ended without errors
C4_Witness ==
    /\ pc = "done"
    /\ runs = 2
    /\ returned = "normalPath"
    /\ requests # <<>>
    /\ \E p \in DOMAIN pageMap : \A u \in DOMAIN requests : p \notin UnitPages(u)
    /\ ~disk.error.exists

\* C5: a unit is accepted exactly when its outcome has no error object, has
\* response text, and the begin and end marker counts both equal the unit's
\* page count; a rejected unit changes nothing in PageResult and is appended
\* to the next round's pending list, which becomes the pending list.
ValidatedOne == pc = "validate" /\ pc' = "validate" /\ vI' = vI + 1 /\ originalIndex' # 0

C5_AtomicAcceptance ==
    [][/\ ValidatedOne =>
            LET meta == batchMetadata[originalIndex']
                r == result'
            IN  /\ success' <=> (/\ ~r.error
                                 /\ r.parts
                                 /\ NumKind(r.text, "begin") = meta.numPages
                                 /\ NumKind(r.text, "end") = meta.numPages)
                /\ ~success' => /\ pageMap' = pageMap
                                /\ nextPendingIndices' =
                                      Append(nextPendingIndices, originalIndex')
                /\ success' => nextPendingIndices' = nextPendingIndices
       /\ (pc = "validate" /\ pc' = "loop") => pendingIndices' = nextPendingIndices
      ]_vars

\* a 2-page unit answered with 2 begin markers and 1 end marker was rejected
C5_Witness ==
    /\ pc = "validate"
    /\ originalIndex # 0
    /\ ~success
    /\ result.parts
    /\ batchMetadata[originalIndex].numPages = 2
    /\ NumKind(result.text, "begin") = 2
    /\ NumKind(result.text, "end") = 1
    /\ originalIndex \in Range(nextPendingIndices)
    /\ \A p \in UnitPages(originalIndex) : p \notin DOMAIN pageMap

\* C6: on acceptance every begin marker with a relative index r in
\* 1..numPages is rewritten once to the absolute page pages[r]: the entries
\* the acceptance writes are keyed by pages of the unit, each starts with the
\* begin marker of its own key and holds no other begin marker, and the text
\* that follows a marker r (r used once, no failure words in the answer) is
\* stored under pages[r].
BeginAt(text) == {i \in DOMAIN text : text[i].k = "begin"}
\* the piece of text from the marker at i up to the next begin marker
RawSegment(text, i) ==
    LET later == {j \in BeginAt(text) : j > i}
        stop == IF later = {} THEN Len(text)
                ELSE (CHOOSE j \in later : \A x \in later : j <= x) - 1
    IN  SubSeq(text, i, stop)
Written(old, new) == {p \in DOMAIN new : p \notin DOMAIN old \/ new[p] # old[p]}

PagesInRequests == UNION {Range(requests[i].pages) : i \in DOMAIN requests}
PagesSent == UNION {UnitPages(u) : u \in UnitsSent}
MarkedPages(content) == {content[i].n : i \in BeginAt(content)}
SentinelPages(content) == {content[i].n : i \in {j \in DOMAIN content : content[j].k = "error"}}
Chunked == pc \in {"loop", "rb", "submit", "create", "poll", "finish", "validate",
                   "merge", "persist"}

C7_ResumeSendsOnlyFailed ==
    (/\ Chunked
     /\ disk.error.exists
     /\ MarkedPages(disk.error.content) = RequestedPages)
        => /\ PagesInRequests = SentinelPages(disk.error.content)
           /\ (pc = "loop" /\ retryCount = 0) =>
                 /\ DOMAIN pageMap = RequestedPages \ SentinelPages(disk.error.content)
                 /\ PagesInRequests = RequestedPages \ DOMAIN pageMap
           /\ PagesSent \subseteq SentinelPages(disk.error.content)
           /\ \A i \in DOMAIN requests : requests[i].pages = batchMetadata[i].pages

\* the second run over the whole document resumed page 1 and sent the
\* failed last page alone
C7_Witness ==
    /\ runs = 2
    /\ pc = "poll"
    /\ disk.error.exists
    /\ MarkedPages(disk.error.content) = 1..NumPages
    /\ RequestedPages = 1..NumPages
    /\ SentinelPages(disk.error.content) = {NumPages}
    /\ PagesSent = {NumPages}

\* C8: the merged text holds exactly one segment per page of
\* startPage..actualEndPage, in ascending order and nothing else: the page's
\* PageResult text followed by a blank line, or the page's begin marker
\* followed by the failure sentinel naming the page.
BeginSeq(text) ==
    LET idx == [i \in DOMAIN text |-> i]
    IN  SelectSeq(idx, LAMBDA i : text[i].k = "begin")

C8_MergeEveryPageOnce ==
    Merged =>
        LET b == BeginSeq(allMarkdown)
            n == actualEndPage - startPage + 1
        IN  /\ Len(b) = n
            /\ n > 0 => b[1] = 1
            /\ \A j \in 1..n :
                  LET page == startPage + j - 1
                      seg == SubSeq(allMarkdown, b[j],
                                    IF j < n THEN b[j + 1] - 1 ELSE Len(allMarkdown))
                  IN  /\ allMarkdown[b[j]].n = page
                      /\ IF page \in DOMAIN pageMap
                         THEN seg = pageMap[page] \o <<NL, NL>>
                         ELSE seg = <<BeginTok(page), TailTok, NL, NL,
                                      ErrorTok(page), NL, NL>>

\* a merge of several pages, the first resolved and the last failed
C8_Witness ==
    /\ pc = "persist"
    /\ startPage < actualEndPage
    /\ startPage \in DOMAIN pageMap
    /\ actualEndPage \notin DOMAIN pageMap
    /\ retryCount = MAX_RETRIES

\* C9: the merged text is written to X_ERROR_paged exactly when a page of the
\* requested range is unresolved at merge time, else to X_paged; the written
\* error artifact holds at least one failure sentinel, the written success
\* artifact none.
C9_PathMatchesContent ==
    pc \in {"unlink", "done"} =>
        LET unresolved == \E p \in RequestedPages : p \notin DOMAIN pageMap
        IN  IF unresolved
            THEN /\ disk.error = File(allMarkdown)
                 /\ IncludesError(disk.error.content)
                 /\ pc = "done" => returned = "errorPath"
                 /\ pc = "unlink" => disk.normal.content # allMarkdown
            ELSE /\ disk.normal = File(allMarkdown)
                 /\ ~IncludesError(disk.normal.content)
                 /\ pc = "done" => returned = "normalPath"

\* a successful run over part of the document has written X_paged
C9_Witness ==
    /\ pc = "unlink"
    /\ ~hasError
    /\ actualEndPage < NumPages
    /\ jobs # <<>>
    /\ disk.normal = File(allMarkdown)

\* C10: within a run PageResult only grows: every entry present before a
\* step of the run is present after it with the same text.
C10_PageResultMonotone ==
    [][pc' # "scan" =>
          \A p \in DOMAIN pageMap : p \in DOMAIN pageMap' /\ pageMap'[p] = pageMap[p]]_vars

\* a unit was accepted in a retry round of a run that had resumed a page
C10_Witness ==
    /\ pc = "validate"
    /\ success
    /\ retryCount >= 1
    /\ runs = 2
    /\ originalIndex # 0
    /\ \E p \in DOMAIN pageMap : \A u \in DOMAIN requests : p \notin UnitPages(u)
    /\ \E p \in UnitPages(originalIndex) : p \in DOMAIN pageMap

\* C11: each round submits exactly the units pending in it.  A unit accepted
\* in round k was sent in rounds 0..k and in no later round, and is in no
\* pending list afterwards; a unit not accepted so far is pending and was sent
\* in every round that has taken place: in rounds 0..retryCount once the
\* submissions of round retryCount are over, in rounds 0..retryCount-1
\* between rounds and after the loop.
Submitting == pc \in {"rb", "submit", "create", "poll", "finish"}

C11_RoundsSubmitPending ==
    /\ Submitting => UnitsSent \subseteq Range(pendingIndices)
    /\ pc = "validate" => UnitsSent = Range(pendingIndices)
    /\ \A u \in DOMAIN hist.sent :
          LET a == hist.accepted[u]
          IN  /\ a >= 0 =>
                    /\ hist.sent[u] = 0..a
                    /\ a <= retryCount
                    /\ u \notin Range(nextPendingIndices)
                    /\ (pc # "validate" /\ pc # "thrown") =>
                          (a < retryCount /\ u \notin Range(pendingIndices))
              /\ a = -1 =>
                    /\ pc # "thrown" => u \in Range(pendingIndices)
                    /\ pc = "validate" => hist.sent[u] = 0..retryCount
                    /\ Submitting =>
                          /\ 0..(retryCount - 1) \subseteq hist.sent[u]
                          /\ hist.sent[u] \subseteq 0..retryCount
                          /\ (retryCount \in hist.sent[u]) <=> (u \in UnitsSent)
                    /\ (pc = "loop" \/ AfterLoop) => hist.sent[u] = 0..(retryCount - 1)

\* round 1 is under way with the unit that failed in round 0, and without
\* the unit that round 0 accepted
C11_Witness ==
    /\ pc = "poll"
    /\ retryCount = 1
    /\ hist.accepted = <<0, -1>>
    /\ hist.sent = <<{0}, {0, 1}>>
    /\ pendingIndices = <<2>>

\* C12: only a submission whose serialized payload is strictly under
\* 19 * 1024 * 1024 reaches the service's create call: whenever the call is
\* about to be made or a job exists, the payload of that submission is
\* shorter than the ceiling.
PayloadOf(units) == JsonArraySize(requests, units)

C12_OnlyUnderCeilingCreated ==
    /\ pc \in {"create", "poll", "finish"}
          => PayloadOf(currentBatch) < 19 * 1024 * 1024
    /\ \A j \in DOMAIN jobs : PayloadOf(jobs[j].units) < 19 * 1024 * 1024

\* C13: a size-ceiling violation and a refused create both end the call with
\* the error thrown to the caller, and a call ended that way has returned no
\* path and leaves X_paged and X_ERROR_paged exactly as they were when the
\* call started.
HardFailures == {"size", "create"}

C13_HardFailureLeavesArtifacts ==
    [][/\ (pc = "submit" /\ PayloadOf(currentBatch) > SIZE_CEILING)
            => (pc' = "thrown" /\ thrown' = "size")
       /\ (pc = "create" /\ jobs' = jobs)
            => (pc' = "thrown" /\ thrown' = "create")
       /\ (pc' = "thrown" /\ thrown' \in HardFailures)
            => /\ returned' = ""
               /\ disk' = disk
               /\ disk' = hist'.disk0
      ]_vars

\* a second run that found a partial artifact was refused a job in a retry
\* round, after it had accepted a unit
C13_Witness ==
    /\ pc = "thrown"
    /\ thrown = "create"
    /\ runs = 2
    /\ retryCount >= 1
    /\ hist.disk0.error.exists
    /\ disk = hist.disk0
    /\ \E u \in DOMAIN hist.accepted : hist.accepted[u] >= 0

\* C14: in a run that has a unit whose request alone is longer than
\* MAX_BATCH_SIZE no round is ever completed: retryCount stays 0, nothing is
\* validated, merged or persisted, and the run can only end with the size
\* error; the unit is in no job and was never sent, and its request still
\* holds every page of the unit.
OversizeUnits == {u \in DOMAIN requests : requests[u].size > MAX_BATCH_SIZE}

C14_OversizeUnitFailsFast ==
    OversizeUnits # {} =>
        /\ retryCount = 0
        /\ pc \notin {"validate", "merge", "persist", "unlink", "done"}
        /\ returned = ""
        /\ disk = hist.disk0
        /\ pc \in {"create", "poll", "finish"}
              => Range(currentBatch) \cap OversizeUnits = {}
        /\ (pc = "thrown" /\ Range(currentBatch) \cap OversizeUnits # {})
              => thrown = "size"
        /\ \A u \in OversizeUnits :
              /\ u \notin UnitsSent
              /\ hist.sent[u] = {}
              /\ requests[u] = createOcrRequest(doc, batchMetadata[u].pages)
              /\ Len(requests[u].pages) = batchMetadata[u].numPages

\* the unit ahead of the oversized one was sent and answered, then the
\* submission of the oversized unit ended the run
C14_Witness ==
    /\ pc = "thrown"
    /\ thrown = "size"
    /\ Len(requests) = 2
    /\ OversizeUnits = {2}
    /\ currentBatch = <<2>>
    /\ hist.sent = <<{0}, {}>>
    /\ retryCount = 0

\* C15: every request the chunker has generated has a serialized size of at
\* most MAX_BATCH_SIZE, whatever the sizes of the pages and batchSize.
C15_RequestsWithinBatchSize ==
    \A i \in DOMAIN requests : requests[i].size <= 19 * 1024 * 1024

\* C16: the units partition the ascending list of the pages of the range
\* that the resume scan left unresolved: the units' page lists, one after the
\* other, are that list; every unit holds between 1 and batchSize pages and
\* every unit but the last exactly batchSize; every request holds the pages
\* of its BatchMetadata in the same order, numPages is their number and
\* startPage the first of them.
RECURSIVE Flatten(_)
Flatten(seqs) == IF seqs = <<>> THEN <<>> ELSE Head(seqs) \o Flatten(Tail(seqs))

UnitLists == [u \in DOMAIN batchMetadata |-> batchMetadata[u].pages]
Ascending(seq) == \A i \in DOMAIN seq : \A j \in DOMAIN seq : i < j => seq[i] < seq[j]
JustChunked == pc = "loop" /\ retryCount = 0

C16_ChunkerPartitions ==
    /\ Len(batchMetadata) = Len(requests)
    /\ Ascending(Flatten(UnitLists))
    /\ JustChunked => Range(Flatten(UnitLists)) = RequestedPages \ DOMAIN pageMap
    /\ \A u \in DOMAIN requests :
          LET meta == batchMetadata[u]
          IN  /\ Len(meta.pages) \in 1..batchSize
              /\ u < Len(requests) => Len(meta.pages) = batchSize
              /\ meta.pages = SubSeq(Flatten(UnitLists), (u - 1) * batchSize + 1,
                                      (u - 1) * batchSize + Len(meta.pages))
              /\ Cardinality({v \in DOMAIN requests :
                                 \E p \in UnitPages(u) : p \in UnitPages(v)}) = 1
              /\ requests[u].pages = meta.pages
              /\ meta.numPages = Len(meta.pages)
              /\ meta.startPage = meta.pages[1]

\* the whole document was chunked into more than one unit
C16_Witness ==
    /\ JustChunked
    /\ Len(requests) >= 2
    /\ RequestedPages = 1..NumPages
    /\ Flatten(UnitLists) = [i \in 1..NumPages |-> i]

\* the two units of the scenarios: the first ScenarioBatch pages, and the rest
ScenarioUnits ==
    <<[i \in 1..ScenarioBatch |-> i],
      [i \in 1..(ScenarioPages - ScenarioBatch) |-> ScenarioBatch + i]>>

\* C17: in the run over the 10 pages with batchSize 5, when unit 1 was
\* accepted in round 0 and unit 2 in round 2 (after failing rounds 0 and 1),
\* unit 1 was sent exactly once, retryCount was incremented exactly twice
\* before unit 2 was accepted, and the run ends with X_paged, holding no
\* failure sentinel, as its only artifact.
C17_ScenarioSucceeds ==
    (UnitLists = ScenarioUnits /\ hist.accepted = <<0, 2>>) =>
        /\ hist.sent = <<{0}, {0, 1, 2}>>
        /\ retryCount \in {2, 3}
        /\ pc = "validate" => retryCount = 2
        /\ pc \in {"persist", "unlink", "done"} =>
              (~hasError /\ ~IncludesError(allMarkdown))
        /\ pc = "done" =>
              /\ returned = "normalPath"
              /\ disk.normal = File(allMarkdown)
              /\ ~disk.error.exists

\* C18: in the same run, when unit 1 was accepted in round 0 and unit 2
\* failed in all three rounds, the run ends with X_ERROR_paged, which holds
\* the resolved text of each of the pages 1..5 and, for each page N of 6..10,
\* the begin marker of N followed by the sentinel naming N.
C18_ScenarioFails ==
    (/\ UnitLists = ScenarioUnits
     /\ hist.accepted = <<0, -1>>
     /\ retryCount = MAX_RETRIES
     /\ pc = "done") =>
        /\ returned = "errorPath"
        /\ disk.error.exists
        /\ ~disk.normal.exists
        /\ \A p \in 1..ScenarioBatch : p \in DOMAIN pageMap
        /\ disk.error.content =
              Flatten([p \in 1..ScenarioPages |->
                         IF p <= ScenarioBatch
                         THEN pageMap[p] \o <<NL, NL>>
                         ELSE <<BeginTok(p), TailTok, NL, NL, ErrorTok(p), NL, NL>>])

\* the phase of the run a position of pdfToText belongs to
Phase(p) ==
    CASE p = "scan" -> "SCAN_RESUME"
      [] p = "chunk" -> "CHUNK"
      [] p \in {"loop", "rb", "submit", "create"} -> "SUBMIT"
      [] p \in {"poll", "finish"} -> "POLL"
      [] p = "validate" -> "VALIDATE"
      [] p = "merge" -> "MERGE"
      [] p \in {"persist", "unlink"} -> "PERSIST"
      [] p = "done" -> "PERSISTED"
      [] p = "thrown" -> "STOPPED"
      [] p = "idle" -> "NONE"

\* the order of the phases; a round split by the size ceiling goes from
\* POLL back to SUBMIT, the retry loop is left from its head (SUBMIT)
PhaseSteps ==
    {<<"SCAN_RESUME", "CHUNK">>, <<"CHUNK", "SUBMIT">>, <<"SUBMIT", "POLL">>,
     <<"POLL", "SUBMIT">>, <<"SUBMIT", "VALIDATE">>, <<"VALIDATE", "SUBMIT">>,
     <<"SUBMIT", "MERGE">>, <<"MERGE", "PERSIST">>, <<"PERSIST", "PERSISTED">>}
\* a run is stopped by an error only between chunking and the end of the loop
StopSteps == {<<"SUBMIT", "STOPPED">>, <<"POLL", "STOPPED">>, <<"VALIDATE", "STOPPED">>}
\* a new call
CallSteps == {<<"NONE", "SCAN_RESUME">>, <<"PERSISTED", "SCAN_RESUME">>,
              <<"STOPPED", "SCAN_RESUME">>}

Terminal4 == {"JOB_STATE_SUCCEEDED", "JOB_STATE_FAILED", "JOB_STATE_CANCELLED",
              "JOB_STATE_EXPIRED"}
WaitErrors == {"job_failed", "no_responses"}

C20_PollUntilTerminal ==
    [][/\ pc = "poll" =>
            /\ jobs # <<>>
            /\ jobs[Len(jobs)].state \notin Terminal4
            /\ \A j \in 1..(Len(jobs) - 1) : jobs[j].state \in Terminal4
            /\ Len(jobs') = Len(jobs)
            /\ IF jobs'[Len(jobs')].state \in Terminal4
               THEN pc' = "finish"
               ELSE pc' = "poll"
       /\ \A j \in DOMAIN jobs :
            (jobs[j].state \in Terminal4 /\ j \in DOMAIN jobs') => jobs'[j] = jobs[j]
       /\ pc # "poll" =>
            \A j \in DOMAIN jobs : j \in DOMAIN jobs' => jobs'[j] = jobs[j]
       /\ (\/ Len(allResults') > Len(allResults)
           \/ (pc' = "thrown" /\ thrown' \in WaitErrors))
            => /\ pc = "finish"
               /\ jobs[Len(jobs)].state \in Terminal4
               /\ (Len(allResults') > Len(allResults))
                     => jobs[Len(jobs)].state = "JOB_STATE_SUCCEEDED"
      ]_vars

\* the second job of a split round is still being polled after a
\* non-terminal answer; the first job of the round has ended
C20_Witness ==
    /\ pc = "poll"
    /\ Len(jobs) = 2
    /\ jobs[1].state = "JOB_STATE_SUCCEEDED"
    /\ jobs[2].state = "JOB_STATE_RUNNING"
    /\ retryCount = 1

\* C21: at most one job is outstanding (created, no terminal state observed
\* yet): it is the newest job and the run is polling it; whenever a job is
\* about to be created, and whenever a round is validated or a new round may
\* start, every job created so far in the round has been observed terminal.
Outstanding == {j \in DOMAIN jobs : jobs[j].state \notin Terminal4}

C21_OneOutstandingJob ==
    /\ Cardinality(Outstanding) <= 1
    /\ Outstanding \subseteq {Len(jobs)}
    /\ Outstanding # {} => pc = "poll"
    /\ pc \in {"rb", "submit", "create"} => Outstanding = {}
    /\ (pc \in {"validate", "loop"} \/ AfterLoop)
          => \A j \in DOMAIN jobs : jobs[j].state = "JOB_STATE_SUCCEEDED"

\* the second job of a split round has just been created; the first one
\* has succeeded
C21_Witness ==
    /\ pc = "poll"
    /\ Len(jobs) = 2
    /\ jobs[1].state = "JOB_STATE_SUCCEEDED"
    /\ jobs[2].state = "JOB_STATE_PENDING"
    /\ Outstanding = {2}

\* C22: the outcomes of a round, one job's after the other's, stand in the
\* order of the pending list, and each is validated against the unit at its
\* position; PageResult is a function of the resume scan and of the set of
\* accepted outcomes alone: the entries an accepted outcome yields lie within
\* its own unit's pages, so no two accepted outcomes touch the same page, and
\* in every state of the run each page holds the entry of the one accepted
\* outcome that yields it, else the entry of the resume scan, whatever the
\* order and the rounds of the acceptances; the merged text is that mapping
\* laid out by ascending page of the requested range.
ScanMap ==
    IF hist.disk0.error.exists
    THEN extractPagesFromMarkdown(hist.disk0.error.content)
    ELSE EmptyMap
AcceptedUnits == {u \in DOMAIN hist.accepted : hist.accepted[u] >= 0}
\* the entries the accepted outcome of unit u yields
Stored(u) == extractPagesFromMarkdown(RewriteMarkers(hist.text[u], batchMetadata[u]))
\* the entries of all accepted outcomes, and the mapping they give on top of
\* the resume scan
StoredAll == [u \in AcceptedUnits |-> Stored(u)]
MapOf(st, scan) ==
    [p \in (DOMAIN scan) \cup UNION {DOMAIN st[u] : u \in DOMAIN st} |->
        IF \E u \in DOMAIN st : p \in DOMAIN st[u]
        THEN st[CHOOSE u \in DOMAIN st : p \in DOMAIN st[u]][p]
        ELSE scan[p]]
ExpectedMap == MapOf(StoredAll, ScanMap)

C22_OrderIndependentResult ==
    /\ pc = "validate" =>
          /\ allResults = pendingIndices
          /\ vI > 1 => (originalIndex = pendingIndices[vI - 1]
                          /\ originalIndex = allResults[vI - 1])
    /\ pc # "scan" =>
          LET st == StoredAll
              scan == ScanMap
              expected == MapOf(st, scan)
          IN  /\ \A u \in DOMAIN st :
                    /\ DOMAIN st[u] \subseteq UnitPages(u)
                    /\ DOMAIN st[u] \cap DOMAIN scan = {}
                    /\ \A v \in DOMAIN st \ {u} : DOMAIN st[u] \cap DOMAIN st[v] = {}
              /\ pageMap = expected
              /\ Merged =>
                    /\ allMarkdown = AssembleFrom(startPage, actualEndPage, expected)
                    /\ LET b == BeginSeq(allMarkdown)
                       IN  [j \in DOMAIN b |-> allMarkdown[b[j]].n]
                              = [j \in 1..(actualEndPage - startPage + 1) |->
                                    startPage + j - 1]

\* the second unit was accepted a round before the first, and the run has
\* persisted the complete artifact
C22_Witness ==
    /\ pc = "done"
    /\ hist.accepted = <<1, 0>>
    /\ returned = "normalPath"
    /\ DOMAIN pageMap = RequestedPages
    /\ disk.normal.content = AssembleFrom(startPage, actualEndPage, ExpectedMap)

\* C23: parsing the partial artifact a run has written gives back exactly
\* the pages of the run's range that were in PageResult at the merge, each
\* with the text it was written with, and none of the pages written with the
\* failure sentinel; a rerun over the same range selects exactly those pages.
HasSentinel(text) == \E i \in DOMAIN text : text[i].k = "error"
WrittenSentinels ==
    {p \in RequestedPages :
        \E i \in DOMAIN allMarkdown :
            /\ allMarkdown[i] = BeginTok(p)
            /\ i + 4 <= Len(allMarkdown)
            /\ allMarkdown[i + 4] = ErrorTok(p)}

C23_ScanRoundTrip ==
    (pc \in {"unlink", "done"} /\ hasError) =>
        LET parsed == extractPagesFromMarkdown(disk.error.content)
            resolved == DOMAIN pageMap \cap RequestedPages
        IN  /\ disk.error.content = allMarkdown
            /\ DOMAIN parsed = resolved
            /\ \A p \in resolved : parsed[p] = pageMap[p] /\ ~HasSentinel(parsed[p])
            /\ WrittenSentinels = RequestedPages \ resolved
            /\ WrittenSentinels \cap DOMAIN parsed = {}
            /\ Range(PageIndicesFrom(startPage, actualEndPage, parsed)) = WrittenSentinels

\* a partial artifact with a resolved page ahead of a failed one
C23_Witness ==
    /\ pc = "done"
    /\ returned = "errorPath"
    /\ startPage \in DOMAIN pageMap
    /\ actualEndPage \notin DOMAIN pageMap
    /\ DOMAIN extractPagesFromMarkdown(disk.error.content) = {startPage}

\* C25: in every state of a run that started with at most one of the two
\* artifacts on disk, the states between the write of the new artifact and
\* the removal of the other one included, X_paged and X_ERROR_paged do not
\* both exist.
C25_NeverBothArtifacts ==
    ~(hist.disk0.normal.exists /\ hist.disk0.error.exists)
        => ~(disk.normal.exists /\ disk.error.exists)

\* C26: once a unit has passed validation and has been merged, every page of
\* its BatchMetadata has an entry in PageResult, whatever the indices of the
\* begin markers of the accepted text; so a page that the final artifact shows
\* with the failure sentinel belongs to a unit still pending at the end of
\* the retry loop.
C26_AcceptedUnitFullyStored ==
    /\ \A u \in AcceptedUnits : UnitPages(u) \subseteq DOMAIN pageMap
    /\ Merged =>
          SentinelPages(allMarkdown)
             \subseteq UNION {UnitPages(u) : u \in Range(pendingIndices)}

\* C28: when every request is at most MAX_BATCH_SIZE long, every job that
\* runBatches forms passes the size check of runInlineBatch: the run is not
\* stopped by the size check.
C28_FittingUnitsPassSizeCheck ==
    (\A i \in DOMAIN requests : requests[i].size <= MAX_BATCH_SIZE)
        => ~(pc = "thrown" /\ thrown = "size")

\* C29: progressState.completed never exceeds progressState.total, so the
\* number of remaining requests of the ETA, total - completed, is never
\* negative, retry rounds included.
\* remainingRequests of the ETA (131; part_000 59)
RemainingRequests(ps) == ps.total - ps.completed

C29_CompletedWithinTotal ==
    /\ progressState.completed <= progressState.total
    /\ RemainingRequests(progressState) >= 0

\* C30: every page the resume scan of a rerun recovers from X_ERROR_paged is
\* present, as resolved text, in the artifact the rerun persists, whatever
\* the requested range of the rerun.
C30_RerunKeepsResolvedPages ==
    (pc = "done" /\ hist.disk0.error.exists) =>
        LET kept == extractPagesFromMarkdown(
                        IF returned = "errorPath" THEN disk.error.content
                        ELSE disk.normal.content)
        IN  \A p \in DOMAIN ScanMap : p \in DOMAIN kept /\ kept[p] = ScanMap[p]

\* C27: at the end of each round every unit that was pending at its start
\* has been accepted or is in the next pending set, and the next pending set
\* holds nothing else, however many outcomes the SUCCEEDED jobs of the round
\* returned.
C27_PendingAcceptedOrKept ==
    [][(pc = "validate" /\ pc' = "loop") =>
          /\ \A u \in Range(pendingIndices) :
                u \in AcceptedUnits \/ u \in Range(pendingIndices')
          /\ Range(pendingIndices') \subseteq Range(pendingIndices) \ AcceptedUnits]_vars

\* C24: the progress values decide nothing.  Whatever progressState holds at
\* any point of a run, every decision of the run is the same function of the
\* rest of the state and of the service's answer: polling goes on exactly
\* while the state reported is not terminal; an outcome is accepted exactly
\* when it holds text whose marker counts match, and then merged, else its unit
\* is kept pending; a round ends with the kept units as the pending set and
\* one more retry counted; the loop is left exactly when nothing is pending or
\* MAX_RETRIES is reached; the merged text and the choice of path come from
\* PageResult alone; and a step that changes the progress values only changes
\* nothing else.
LowVars ==
    <<doc, svc, disk, runs, pc, startPage, actualEndPage, batchSize, pageMap,
      requests, batchMetadata, pendingIndices, retryCount, rbI, currentBatch,
      currentBatchSize, allResults, jobs, vI, nextPendingIndices,
      originalIndex, result, success, allMarkdown, hasError, thrown, returned>>

C24_DecisionsIgnoreProgress ==
    [][/\ (pc = "poll" /\ jobs' # jobs) =>
             (pc' = "poll") = (jobs'[Len(jobs')].state \notin Terminal4)
       /\ (pc = "poll" /\ pc' # "poll") =>
             (pc' = "finish" /\ jobs'[Len(jobs')].state \in Terminal4)
       /\ (pc = "finish" /\ pc' # "finish") =>
             (pc' = "rb") = (jobs[Len(jobs)].state = "JOB_STATE_SUCCEEDED"
                                /\ allResults' = allResults \o currentBatch)
       /\ ValidatedOne =>
             LET meta == batchMetadata[originalIndex']
                 ok == /\ ~result'.error
                       /\ result'.parts
                       /\ CountKind(result'.text, "begin") = meta.numPages
                       /\ CountKind(result'.text, "end") = meta.numPages
             IN  /\ success' = ok
                 /\ pageMap' = IF ok THEN AcceptInto(pageMap, result'.text, meta)
                               ELSE pageMap
                 /\ nextPendingIndices' =
                       IF ok THEN nextPendingIndices
                       ELSE Append(nextPendingIndices, originalIndex')
       /\ (pc = "validate" /\ pc' = "loop") =>
             /\ pendingIndices' = nextPendingIndices
             /\ retryCount' = retryCount + 1
       /\ (pc = "loop" /\ pc' # "loop") =>
             (pc' = "merge") = (pendingIndices = <<>> \/ retryCount >= 3)
       /\ (pc = "merge" /\ pc' # "merge") =>
             /\ allMarkdown' = AssembleFrom(startPage, actualEndPage, pageMap)
             /\ hasError' = (RequestedPages \ DOMAIN pageMap # {})
       /\ (pc = "persist" /\ pc' # "persist") =>
             disk' = WriteArtifact(disk, hasError, allMarkdown)
       /\ (pc = "unlink" /\ pc' # "unlink") =>
             /\ disk' = UnlinkOther(disk, hasError)
             /\ returned' = (IF hasError THEN "errorPath" ELSE "normalPath")
       /\ (pc' = pc /\ progressState' # progressState /\ pc # "finish") =>
             UNCHANGED LowVars]_vars

\* a run that went on with progress values no run of its own computes (a
\* total of 0 with two units) retried a unit and persisted the complete
\* artifact
C24_Witness ==
    /\ pc = "done"
    /\ returned = "normalPath"
    /\ Len(requests) = 2
    /\ progressState.total = 0
    /\ hist.accepted = <<0, 1>>

====
